---- MODULE Spec2Model ----
(***************************************************************************)
(* Model of the CSS class index of css-utilities-vscode:                   *)
(*   CSSParser  (cssParser.ts)  parseCSS / extractClassesFromAST           *)
(*   CSSIndexer (indexer.ts)    indexWorkspace / indexFile /               *)
(*                              removeClassesFromFile / file watcher /     *)
(*                              rescanFiles / clearCache / getStatistics   *)
(*   activate   (extension.ts)  the commands                               *)
(*                                                                         *)
(* The extension host runs JavaScript: one macrotask (a watcher event, a   *)
(* command, the resolution of findFiles) runs to completion, then the      *)
(* microtask queue (the continuations of `await`) is drained before the    *)
(* next macrotask starts.  classIndex is a JavaScript Map: it iterates in  *)
(* insertion order, and set() of an existing key keeps the key's place.    *)
(***************************************************************************)
EXTENDS Integers, Sequences, FiniteSets, TLC

\* ------------------------------------------------------------------ bounds
MaxScans == 2       \* indexWorkspace runs in flight at the same time
MaxEdits == 1       \* changes made to the files of the workspace
MaxIndexLen == 3    \* classes in the index a search runs on
MaxLimit == 2       \* maxSuggestions ranges over -MaxLimit..MaxLimit and 50

\* ------------------------------------------------------- the workspace
NoFile == "<absent>"

Files == {"a.css", "lib/b.scss", "node_modules/m.css"}

DefaultInclude == <<"**/*.{css,scss,sass,less}">>
DefaultExclude == <<"**/node_modules/**", "**/dist/**", "**/build/**">>
DefaultWatchPattern == "**/*.{css,scss,sass,less}"

\* Glob evaluation belongs to the host (vscode.workspace.findFiles, the
\* file system watcher); it is given here as the table of the files of the
\* workspace that each pattern matches.
Matches(pattern) ==
    CASE pattern = "**/*.{css,scss,sass,less}" -> Files
      [] pattern = "**/*.css" -> {"a.css", "node_modules/m.css"}
      [] pattern = "**/*.scss" -> {"lib/b.scss"}
      [] pattern = "**/node_modules/**" -> {"node_modules/m.css"}
      [] OTHER -> {}

Range(s) == {s[i] : i \in 1..Len(s)}

MatchesAny(patterns) == UNION {Matches(p) : p \in Range(patterns)}

\* The settings the user can have under customCSSIntelliSense.
Configs ==
    { [include |-> DefaultInclude, exclude |-> DefaultExclude],
      [include |-> <<"**/*.css", "**/*.scss">>, exclude |-> DefaultExclude] }

\* ------------------------------------------------------- strings
\* A string is the sequence of its characters.
UpperCase == {"A", "B", "C", "D", "E", "F", "G", "H", "I", "J", "K", "L", "M", "N", "O", "P", "Q", "R", "S", "T", "U", "V", "W", "X", "Y", "Z"}
LowerCase == {"a", "b", "c", "d", "e", "f", "g", "h", "i", "j", "k", "l", "m", "n", "o", "p", "q", "r", "s", "t", "u", "v", "w", "x", "y", "z"}
Digits == {"0", "1", "2", "3", "4", "5", "6", "7", "8", "9"}

\* \s and the line terminators of a JavaScript regular expression.
Whitespace == {" ", "\t", "\n", "\r"}
LineTerminators == {"\n", "\r"}

\* String.prototype.toLowerCase, one character.
LowerChar(ch) ==
    CASE ch = "A" -> "a"
      [] ch = "B" -> "b"
      [] ch = "C" -> "c"
      [] ch = "D" -> "d"
      [] ch = "E" -> "e"
      [] ch = "F" -> "f"
      [] ch = "G" -> "g"
      [] ch = "H" -> "h"
      [] ch = "I" -> "i"
      [] ch = "J" -> "j"
      [] ch = "K" -> "k"
      [] ch = "L" -> "l"
      [] ch = "M" -> "m"
      [] ch = "N" -> "n"
      [] ch = "O" -> "o"
      [] ch = "P" -> "p"
      [] ch = "Q" -> "q"
      [] ch = "R" -> "r"
      [] ch = "S" -> "s"
      [] ch = "T" -> "t"
      [] ch = "U" -> "u"
      [] ch = "V" -> "v"
      [] ch = "W" -> "w"
      [] ch = "X" -> "x"
      [] ch = "Y" -> "y"
      [] ch = "Z" -> "z"
      [] OTHER -> ch

toLowerCase(str) == [i \in 1..Len(str) |-> LowerChar(str[i])]

\* Mutant: a prefix is looked for anywhere in the text.
startsWith_Anywhere(text, pattern) ==
    \E k \in 0..(Len(text) - Len(pattern)) :
        SubSeq(text, k + 1, k + Len(pattern)) = pattern

startsWith(text, pattern) ==
    /\ Len(pattern) <= Len(text)
    /\ SubSeq(text, 1, Len(pattern)) = pattern

includes(text, pattern) ==
    \E k \in 0..(Len(text) - Len(pattern)) :
        SubSeq(text, k + 1, k + Len(pattern)) = pattern

Min(a, b) == IF a <= b THEN a ELSE b

\* String.prototype.trim
trim(str) ==
    LET kept == {i \in 1..Len(str) : str[i] \notin Whitespace}
    IN  IF kept = {} THEN << >>
        ELSE SubSeq(str, CHOOSE i \in kept : \A j \in kept : i <= j,
                         CHOOSE i \in kept : \A j \in kept : j <= i)

\* String.prototype.split(separator), separator one character.
RECURSIVE split(_, _)
split(str, separator) ==
    IF \E i \in 1..Len(str) : str[i] = separator
    THEN LET first == CHOOSE i \in 1..Len(str) :
                         /\ str[i] = separator
                         /\ \A j \in 1..(i - 1) : str[j] # separator
         IN  << SubSeq(str, 1, first - 1) >>
             \o split(SubSeq(str, first + 1, Len(str)), separator)
    ELSE << str >>

\* ------------------------------------------------------- stylesheets
\* A stylesheet as postcss sees it: either it does not parse, or it is the
\* list of the nodes of the root: rules and comments.  A rule has its selector
\* text, its declarations <<prop, value>> and its source line; a comment has
\* its text (without the delimiters).
Rule(sel, decls, line) ==
    [type |-> "rule", selector |-> sel, decls |-> decls, line |-> line,
     text |-> << >>]

Comment(text) ==
    [type |-> "comment", selector |-> << >>, decls |-> << >>, line |-> 0,
     text |-> text]

\* rule.prev() of the first node of the root.
NoNode == [type |-> "undefined", selector |-> << >>, decls |-> << >>,
           line |-> 0, text |-> << >>]

\* "A":   /* @description Box */
\*        .ab { display: flex }
\*        p .a { color: red; color: blue }
\* "B":   /* helper */
\*        .a { margin: 0 }
\*        .e { }
\*        .a, .Ba, .9z { width: 1px }
Sheet(c) ==
    CASE c = "A" ->
           [ok |-> TRUE,
            root |-> << Comment(<<"@", "d", "e", "s", "c", "r", "i", "p", "t", "i", "o", "n", " ", "B", "o", "x">>),
                        Rule(<<".", "a", "b">>, << <<"display", "flex">> >>, 1),
                        Rule(<<"p", " ", ".", "a">>,
                             << <<"color", "red">>, <<"color", "blue">> >>, 2) >>]
      [] c = "B" ->
           [ok |-> TRUE,
            root |-> << Comment(<<"h", "e", "l", "p", "e", "r">>),
                        Rule(<<".", "a">>, << <<"margin", "0">> >>, 1),
                        Rule(<<".", "e">>, << >>, 2),
                        Rule(<<".", "a", ",", " ", ".", "B", "a", ",", " ", ".", "9", "z">>, << <<"width", "1px">> >>, 3) >>]
      [] OTHER -> [ok |-> FALSE, root |-> << >>]

\* The contents each file of the workspace is given.
Contents(f) ==
    CASE f = "a.css" -> {"A", "B", "Bad"}
      [] f = "lib/b.scss" -> {"B"}
      [] OTHER -> {"A"}

\* The workspace when the extension starts (or no workspace folder at all).
InitialDisks ==
    { [f \in Files |-> NoFile],
      [f \in Files |-> CASE f = "a.css" -> "A" [] f = "lib/b.scss" -> "B" [] OTHER -> NoFile] }

\* ------------------------------------------------------- CSSParser
\* properties[decl.prop] = decl.value for every declaration, in order.
Properties(decls) ==
    [p \in {decls[i][1] : i \in 1..Len(decls)} |->
        LET last == CHOOSE i \in 1..Len(decls) :
                       /\ decls[i][1] = p
                       /\ \A j \in 1..Len(decls) : decls[j][1] = p => j <= i
        IN  decls[last][2]]

\* [a-zA-Z_] and [\w-]
NameStart == UpperCase \cup LowerCase \cup {"_"}
NameChar == NameStart \cup Digits \cup {"-"}

\* s.match(/\.[a-zA-Z_][\w-]*/g) from position i: the matches, left to right,
\* each as long as it can be.
RECURSIVE classMatches(_, _)
classMatches(s, i) ==
    IF i > Len(s) THEN << >>
    ELSE IF s[i] = "." /\ i + 1 <= Len(s) /\ s[i + 1] \in NameStart
         THEN LET end == CHOOSE j \in (i + 1)..Len(s) :
                            /\ \A k \in (i + 1)..j : s[k] \in NameChar
                            /\ (j = Len(s) \/ s[j + 1] \notin NameChar)
              IN  << SubSeq(s, i, end) >> \o classMatches(s, end + 1)
         ELSE classMatches(s, i + 1)

RECURSIVE flatMapClassMatches(_)
flatMapClassMatches(parts) ==
    IF parts = << >> THEN << >>
    ELSE classMatches(Head(parts), 1) \o flatMapClassMatches(Tail(parts))

\* selector.split(",").map(trim).filter(nonempty).flatMap(match)
parseSelector(selector) ==
    LET parts == split(selector, ",")
        trimmed == [i \in 1..Len(parts) |-> trim(parts[i])]
    IN  flatMapClassMatches(SelectSeq(trimmed, LAMBDA s : Len(s) > 0))

\* /^\.[a-zA-Z_][\w-]*$/.test(className)
isValidClassName(className) ==
    /\ Len(className) >= 2
    /\ className[1] = "."
    /\ className[2] \in NameStart
    /\ \A k \in 3..Len(className) : className[k] \in NameChar

\* `properties.key` in a condition: the key is there and its value is not "".
Truthy(properties, key) ==
    key \in DOMAIN properties /\ properties[key] # ""

inferCategory(className, properties) ==
    LET name == toLowerCase(className)
    IN  IF \/ includes(name, <<"f", "l", "e", "x">>) \/ includes(name, <<"g", "r", "i", "d">>) \/ Truthy(properties, "display")
        THEN "Layout"
        ELSE IF \/ includes(name, <<"t", "e", "x", "t">>) \/ includes(name, <<"f", "o", "n", "t">>)
                \/ Truthy(properties, "fontSize")
                \/ Truthy(properties, "fontFamily")
                \/ Truthy(properties, "color")
        THEN "Typography"
        ELSE IF \/ includes(name, <<"b", "g">>) \/ includes(name, <<"b", "a", "c", "k", "g", "r", "o", "u", "n", "d">>)
                \/ Truthy(properties, "backgroundColor")
                \/ Truthy(properties, "background")
        THEN "Background"
        ELSE IF \/ includes(name, <<"b", "o", "r", "d", "e", "r">>)
                \/ Truthy(properties, "border")
                \/ Truthy(properties, "borderRadius")
        THEN "Border"
        ELSE IF \/ includes(name, <<"p", "-">>) \/ includes(name, <<"m", "-">>) \/ includes(name, <<"p", "a", "d", "d", "i", "n", "g">>) \/ includes(name, <<"m", "a", "r", "g", "i", "n">>)
                \/ Truthy(properties, "padding")
                \/ Truthy(properties, "margin")
        THEN "Spacing"
        ELSE IF \/ includes(name, <<"w", "-">>) \/ includes(name, <<"h", "-">>) \/ includes(name, <<"w", "i", "d", "t", "h">>) \/ includes(name, <<"h", "e", "i", "g", "h", "t">>)
                \/ Truthy(properties, "width")
                \/ Truthy(properties, "height")
        THEN "Sizing"
        ELSE IF \/ includes(name, <<"h", "i", "d", "d", "e", "n">>) \/ includes(name, <<"v", "i", "s", "i", "b", "l", "e">>)
                \/ Truthy(properties, "visibility")
                \/ Truthy(properties, "opacity")
        THEN "Visibility"
        ELSE "Utilities"

AtDescription == <<"@", "d", "e", "s", "c", "r", "i", "p", "t", "i", "o", "n">>

\* comment.match(/@description\s+(.+)/) tried at position p: the capture
\* groups it can end with, by the number k of characters \s+ takes.
descriptionMatchAt(comment, p) ==
    IF p + Len(AtDescription) - 1 <= Len(comment)
       /\ SubSeq(comment, p, p + Len(AtDescription) - 1) = AtDescription
    THEN LET from == p + Len(AtDescription)
             takes == {k \in 1..(Len(comment) - from) :
                          /\ \A j \in from..(from + k - 1) : comment[j] \in Whitespace
                          /\ comment[from + k] \notin LineTerminators}
         IN  IF takes = {} THEN {}
             ELSE LET k == CHOOSE k \in takes : \A other \in takes : other <= k
                      start == from + k
                      end == CHOOSE j \in start..Len(comment) :
                                /\ \A i \in start..j : comment[i] \notin LineTerminators
                                /\ (j = Len(comment) \/ comment[j + 1] \in LineTerminators)
                  IN  {SubSeq(comment, start, end)}
    ELSE {}

\* The first position where the expression matches; {} when there is none,
\* else {descriptionMatch[1]}.
descriptionMatch(comment) ==
    LET hits == {p \in 1..Len(comment) : descriptionMatchAt(comment, p) # {}}
    IN  IF hits = {} THEN {}
        ELSE descriptionMatchAt(comment, CHOOSE p \in hits : \A q \in hits : p <= q)

\* Mutant: a comment with other @ tags is taken whole as well.
extractDescription_AnyComment(commentBefore) ==
    IF commentBefore.type = "comment"
    THEN LET comment == trim(commentBefore.text)
         IN  IF descriptionMatch(comment) # {}
             THEN {trim(d) : d \in descriptionMatch(comment)}
             ELSE IF Len(comment) < 100
                  THEN {comment}
                  ELSE {}
    ELSE {}

\* The result is {} for undefined, else {description}.
extractDescription(commentBefore) ==
    IF commentBefore.type = "comment"
    THEN LET comment == trim(commentBefore.text)
         IN  IF descriptionMatch(comment) # {}
             THEN {trim(d) : d \in descriptionMatch(comment)}
             ELSE IF ~includes(comment, <<"@">>) /\ Len(comment) < 100
                  THEN {comment}
                  ELSE {}
    ELSE {}

\* ...(description && { description }): an undefined or empty description
\* leaves the record without the field.
DescriptionField(description) ==
    IF description = {<< >>} THEN {} ELSE description

\* Mutant: a rule without declarations gives a class as well.
selectorClass_NoDeclarations(rule, commentBefore, selector, filePath) ==
    LET properties == Properties(rule.decls)
    IN  IF startsWith(selector, <<".">>) /\ isValidClassName(selector)
        THEN << [name |-> Tail(selector),
                 properties |-> properties,
                 selector |-> rule.selector,
                 sourceFile |-> filePath,
                 line |-> rule.line,
                 category |-> inferCategory(Tail(selector), properties),
                 description |->
                     DescriptionField(extractDescription(commentBefore))] >>
        ELSE << >>

\* The body of selectors.forEach: the class one selector of a rule gives, if
\* any.
selectorClass(rule, commentBefore, selector, filePath) ==
    LET properties == Properties(rule.decls)
    IN  IF /\ startsWith(selector, <<".">>) /\ isValidClassName(selector)
           /\ DOMAIN properties # {}
        THEN << [name |-> Tail(selector),
                 properties |-> properties,
                 selector |-> rule.selector,
                 sourceFile |-> filePath,
                 line |-> rule.line,
                 category |-> inferCategory(Tail(selector), properties),
                 description |->
                     DescriptionField(extractDescription(commentBefore))] >>
        ELSE << >>

\* The classes one rule contributes.
RECURSIVE RuleClasses(_, _, _, _)
RuleClasses(rule, commentBefore, selectors, filePath) ==
    IF selectors = << >> THEN << >>
    ELSE selectorClass(rule, commentBefore, Head(selectors), filePath)
         \o RuleClasses(rule, commentBefore, Tail(selectors), filePath)

\* root.walkRules from node i of the root.
RECURSIVE walkRules(_, _, _)
walkRules(root, i, filePath) ==
    IF i > Len(root) THEN << >>
    ELSE (IF root[i].type = "rule"
          THEN RuleClasses(root[i], IF i > 1 THEN root[i - 1] ELSE NoNode,
                           parseSelector(root[i].selector), filePath)
          ELSE << >>)
         \o walkRules(root, i + 1, filePath)

extractClassesFromAST(root, filePath) == walkRules(root, 1, filePath)

\* The body of parseCSS: processor.parse, then extractClassesFromAST, or the
\* error of the parse.
parseContent(content, filePath) ==
    IF Sheet(content).ok
    THEN [classes |-> extractClassesFromAST(Sheet(content).root, filePath),
          errors |-> << >>]
    ELSE [classes |-> << >>, errors |-> << "Failed to parse" >>]

\* parseCSS is a function of its arguments: its results for the files and
\* contents of the workspace, computed once.
ParseResults ==
    { [content |-> content, filePath |-> filePath,
       result |-> parseContent(content, filePath)]
      : content \in UNION {Contents(f) : f \in Files}, filePath \in Files }

parseCSS(content, filePath) ==
    (CHOOSE r \in ParseResults :
        r.content = content /\ r.filePath = filePath).result

NoResult == [classes |-> << >>, errors |-> << >>]

\* ------------------------------------------------------- the Map
\* Mutant: set() merges the declarations of the record it replaces.
MapSet_Merge(index, cssClass) ==
    IF \E i \in 1..Len(index) : index[i].name = cssClass.name
    THEN [i \in 1..Len(index) |->
            IF index[i].name = cssClass.name
            THEN [cssClass EXCEPT !.properties =
                    [p \in DOMAIN index[i].properties \cup DOMAIN cssClass.properties |->
                        IF p \in DOMAIN cssClass.properties
                        THEN cssClass.properties[p] ELSE index[i].properties[p]]]
            ELSE index[i]]
    ELSE Append(index, cssClass)

\* Map.set: an existing key keeps its place, a new key goes last.
MapSet(index, cssClass) ==
    IF \E i \in 1..Len(index) : index[i].name = cssClass.name
    THEN [i \in 1..Len(index) |->
            IF index[i].name = cssClass.name THEN cssClass ELSE index[i]]
    ELSE Append(index, cssClass)

\* Mutant: delete() drops every key.
MapDelete_Clear(index, className) == << >>

MapDelete(index, className) ==
    SelectSeq(index, LAMBDA c : c.name # className)

RECURSIVE DeleteAll(_, _)
DeleteAll(index, names) ==
    IF names = << >> THEN index
    ELSE DeleteAll(MapDelete(index, Head(names)), Tail(names))

RECURSIVE SetAll(_, _)
SetAll(index, classes) ==
    IF classes = << >> THEN index
    ELSE SetAll(MapSet(index, Head(classes)), Tail(classes))

\* Mutant: clear() leaves the map as it is.
MapClear_Noop(index) == index

\* Mutant: clear() drops the oldest key only.
MapClear_DropFirst(index) == IF index = << >> THEN index ELSE Tail(index)

\* Map.clear
MapClear(index) == << >>

\* getClass
getClass(index, className) ==
    IF \E i \in 1..Len(index) : index[i].name = className
    THEN {index[i] : i \in {j \in 1..Len(index) : index[j].name = className}}
    ELSE {}

\* ------------------------------------------------------- CSSIndexer
\* Mutant: only the first record of the file is collected.
classesToRemove_FirstOnly(index, filePath) ==
    LET hits == SelectSeq(index, LAMBDA c : c.sourceFile = filePath)
    IN  IF hits = << >> THEN << >> ELSE << hits[1].name >>

classesToRemove(index, filePath) ==
    LET hits == SelectSeq(index, LAMBDA c : c.sourceFile = filePath)
    IN  [i \in 1..Len(hits) |-> hits[i].name]

\* Mutant: the records of the file stay.
removeClassesFromFile_Noop(index, filePath) == index

removeClassesFromFile(index, filePath) ==
    DeleteAll(index, classesToRemove(index, filePath))

\* Mutant: the records of the file are not removed before the new ones are set.
indexFileStore_NoRemove(index, filePath, result) ==
    SetAll(index, result.classes)

\* Mutant: a parse result with errors leaves the index as it is.
indexFileStore_KeepOnError(index, filePath, result) ==
    IF result.errors # << >> THEN index
    ELSE SetAll(removeClassesFromFile(index, filePath), result.classes)

\* Mutant: the records are removed in this step and set in a later one.
indexFileStore_RemoveOnly(index, filePath, result) ==
    removeClassesFromFile(index, filePath)

\* The part of indexFile after `await this.parser.parseCSS(...)`.
indexFileStore(index, filePath, result) ==
    SetAll(removeClassesFromFile(index, filePath), result.classes)

\* Mutant: the values come out newest first.
getAllClasses_NewestFirst(index) ==
    [i \in 1..Len(index) |-> index[Len(index) + 1 - i]]

getAllClasses(index) == index

\* The loop of fuzzyMatch from position i of text (1-based).
RECURSIVE fuzzyLoop(_, _, _, _, _, _)
fuzzyLoop(text, pattern, i, patternIndex, score, consecutiveMatches) ==
    IF i > Len(text) \/ patternIndex >= Len(pattern)
    THEN IF patternIndex = Len(pattern) THEN Min(score * 2, 40) ELSE 0
    ELSE IF text[i] = pattern[patternIndex + 1]
         THEN fuzzyLoop(text, pattern, i + 1, patternIndex + 1,
                        score + 1 + consecutiveMatches, consecutiveMatches + 1)
         ELSE fuzzyLoop(text, pattern, i + 1, patternIndex, score, 0)

\* Mutant: the characters of the pattern are looked for in any order.
fuzzyMatch_AnyOrder(text, pattern) ==
    IF \A i \in 1..Len(pattern) : \E j \in 1..Len(text) : text[j] = pattern[i]
    THEN Min(Len(pattern) * 2, 40) ELSE 0

fuzzyMatch(text, pattern) == fuzzyLoop(text, pattern, 1, 0, 0, 0)

\* Mutant: no fuzzy tier.
calculateMatchScore_NoFuzzy(className, query) ==
    LET nameLower == toLowerCase(className)
    IN  IF nameLower = query THEN 100
        ELSE IF startsWith(nameLower, query) THEN 80
        ELSE IF includes(nameLower, query) THEN 60
        ELSE 0

calculateMatchScore(className, query) ==
    LET nameLower == toLowerCase(className)
    IN  IF nameLower = query THEN 100
        ELSE IF startsWith(nameLower, query) THEN 80
        ELSE IF includes(nameLower, query) THEN 60
        ELSE fuzzyMatch(nameLower, query)

\* Array.prototype.slice(0, end)
Slice(arr, end) ==
    LET stop == IF end < 0 THEN (IF Len(arr) + end < 0 THEN 0 ELSE Len(arr) + end)
                ELSE Min(end, Len(arr))
    IN  SubSeq(arr, 1, stop)

\* Array.prototype.sort((a, b) => b.score - a.score): stable, by descending
\* score.  An element goes after the elements that do not score lower.
RECURSIVE SortByScore(_)
SortByScore(results) ==
    IF results = << >> THEN << >>
    ELSE LET sorted == SortByScore(SubSeq(results, 1, Len(results) - 1))
             last == results[Len(results)]
             keep == Cardinality({i \in 1..Len(sorted) : sorted[i].score >= last.score})
         IN  SubSeq(sorted, 1, keep) \o << last >> \o SubSeq(sorted, keep + 1, Len(sorted))

\* Mutant: the results are cut to maxResults before they are sorted.
searchClasses_SliceFirst(index, query, maxResults) ==
    IF query = << >>
    THEN Slice(getAllClasses(index), maxResults)
    ELSE LET queryLower == toLowerCase(query)
             scored == [i \in 1..Len(index) |->
                          [class |-> index[i],
                           score |-> calculateMatchScore(index[i].name, queryLower)]]
             results == SelectSeq(scored, LAMBDA r : r.score > 0)
             top == SortByScore(Slice(results, maxResults))
         IN  [i \in 1..Len(top) |-> top[i].class]

searchClasses(index, query, maxResults) ==
    IF query = << >>
    THEN Slice(getAllClasses(index), maxResults)
    ELSE LET queryLower == toLowerCase(query)
             scored == [i \in 1..Len(index) |->
                          [class |-> index[i],
                           score |-> calculateMatchScore(index[i].name, queryLower)]]
             results == SelectSeq(scored, LAMBDA r : r.score > 0)
             top == Slice(SortByScore(results), maxResults)
         IN  [i \in 1..Len(top) |-> top[i].class]

\* Mutant: fileCount counts a file once per record.
getStatistics_PerRecord(index) ==
    [classCount |-> Len(index), fileCount |-> Len(index)]

getStatistics(index) ==
    [classCount |-> Len(index),
     fileCount |-> Cardinality({index[i].sourceFile : i \in 1..Len(index)})]

VARIABLES
    workspaceFolders,  \* vscode.workspace.workspaceFolders is defined
    config,            \* the customCSSIntelliSense settings
    disk,              \* file -> content, or NoFile
    phase,             \* "constructed", "initializing", "activated"
    classIndex,        \* CSSIndexer.classIndex, in iteration order
    statusBar,         \* the counts statusBarItem shows
    fileWatcher,       \* the watcher is set up
    events,            \* watcher events not yet delivered
    scans,             \* the indexWorkspace calls in flight
    microtasks,        \* continuations waiting in the microtask queue
    edits,             \* how many times the workspace files were changed
    indexedFiles,      \* history: files indexed and not removed since
    deletedFiles,      \* history: files whose delete event was handled, with
                       \* no create/change event handled and no rescan
                       \* started since
    lastOp,            \* history: the operation the last step performed
    prevIndex          \* history: classIndex before that operation

vars == <<workspaceFolders, config, disk, phase, classIndex, statusBar,
          fileWatcher, events, scans, microtasks, edits, indexedFiles,
          deletedFiles, lastOp, prevIndex>>

ScanIds == 1..MaxScans

IdleScan == [state |-> "idle", caller |-> "none", patterns |-> << >>,
             files |-> << >>, reads |-> << >>, clean |-> "alone"]

\* lastOp: op is the operation, file and result its file and parse result,
\* failed the files whose read threw, reads and clean the history of the
\* indexWorkspace run that finished (what it stored, and whether it ran
\* "alone", "overlapped" by clearCache or other rescans only, or "disturbed"
\* by a watcher event), message what showInformationMessage displayed.
Message(text, classCount, fileCount) ==
    [text |-> text, classCount |-> classCount, fileCount |-> fileCount]

Op(op, file, result, failed) ==
    [op |-> op, file |-> file, result |-> result, failed |-> failed,
     reads |-> << >>, clean |-> "alone", message |-> Message("", 0, 0)]

\* The step was not an operation of the indexer.
NoOp == Op("", "", NoResult, {})

Init ==
    /\ workspaceFolders \in BOOLEAN
    /\ config \in Configs
    /\ disk \in InitialDisks
    /\ workspaceFolders = (\E f \in Files : disk[f] # NoFile)
    /\ phase = "constructed"
    /\ classIndex = << >>
    /\ statusBar = [classCount |-> 0, fileCount |-> 0]
    /\ fileWatcher = FALSE
    /\ events = << >>
    /\ scans = [id \in ScanIds |-> IdleScan]
    /\ microtasks = << >>
    /\ edits = 0
    /\ indexedFiles = {}
    /\ deletedFiles = {}
    /\ lastOp = NoOp
    /\ prevIndex = << >>

\* ------------------------------------------------------- helpers
updateStatusBar(index) ==
    [classCount |-> Len(index),
     fileCount |-> Cardinality({index[i].sourceFile : i \in 1..Len(index)})]

Orderings(S) ==
    {s \in [1..Cardinality(S) -> S] : \A i, j \in 1..Cardinality(S) : s[i] = s[j] => i = j}

\* vscode.workspace.findFiles(pattern, `{${excludePatterns.join(',')}}`)
findFiles(pattern, excludePatterns) ==
    {f \in Matches(pattern) \ MatchesAny(excludePatterns) : disk[f] # NoFile}

\* setupFileWatcher: the pattern the watcher is created with.
watchPattern ==
    IF Len(config.include) = 1 THEN config.include[1] ELSE DefaultWatchPattern

IndexTask(file, result, scan) ==
    [k |-> "indexFile", file |-> file, result |-> result, scan |-> scan]

SettledTask(scan) ==
    [k |-> "settled", file |-> "", result |-> NoResult, scan |-> scan]

\* The synchronous part of indexFile for each file of a list:
\* readFileSync, parseCSS, then the await.  A read that throws is caught and
\* leaves no continuation.
RECURSIVE indexFileBegin(_, _)
indexFileBegin(files, scan) ==
    IF files = << >> THEN << >>
    ELSE IF disk[Head(files)] = NoFile
         THEN indexFileBegin(Tail(files), scan)
         ELSE << IndexTask(Head(files), parseCSS(disk[Head(files)], Head(files)), scan) >>
              \o indexFileBegin(Tail(files), scan)

Unreadable(files) == {f \in Range(files) : disk[f] = NoFile}

InFlight(id) == scans[id].state # "idle"

\* The extension host can start a macrotask: the microtask queue is drained,
\* and no findFiles call is still being searched by the host.  (The search is
\* taken to be done before the next macrotask starts; the files may change
\* before the search.)
Quiet ==
    /\ microtasks = << >>
    /\ \A id \in ScanIds : scans[id].state # "finding"

\* A watcher event touches the index while these runs are in flight.
Disturbed(scs) ==
    [id \in ScanIds |->
        IF scs[id].state # "idle" THEN [scs[id] EXCEPT !.clean = "disturbed"]
        ELSE scs[id]]

\* clearCache or another rescan touches the index while these runs are in
\* flight.
Overlapped(scs) ==
    [id \in ScanIds |->
        IF scs[id].state # "idle" /\ scs[id].clean = "alone"
        THEN [scs[id] EXCEPT !.clean = "overlapped"]
        ELSE scs[id]]

\* indexWorkspace up to its first await.
StartScan(caller, clean) ==
    [state |-> "finding", caller |-> caller, patterns |-> config.include,
     files |-> << >>, reads |-> << >>, clean |-> clean]

\* ------------------------------------------------------- the file system
\* A file is created or saved in the workspace.
WriteFile(f, c) ==
    /\ workspaceFolders
    /\ microtasks = << >>
    /\ edits < MaxEdits
    /\ edits' = edits + 1
    /\ disk[f] # c
    /\ disk' = [disk EXCEPT ![f] = c]
    /\ IF fileWatcher /\ f \in Matches(watchPattern)
       THEN events' = Append(events,
                [kind |-> IF disk[f] = NoFile THEN "create" ELSE "change",
                 file |-> f])
       ELSE UNCHANGED events
    /\ lastOp' = NoOp
    /\ prevIndex' = << >>
    /\ UNCHANGED <<deletedFiles, workspaceFolders, indexedFiles, config, phase, classIndex,
                   statusBar,
                   fileWatcher, scans, microtasks>>

\* A file is deleted from the workspace.
DeleteFile(f) ==
    /\ workspaceFolders
    /\ microtasks = << >>
    /\ edits < MaxEdits
    /\ edits' = edits + 1
    /\ disk[f] # NoFile
    /\ disk' = [disk EXCEPT ![f] = NoFile]
    /\ IF fileWatcher /\ f \in Matches(watchPattern)
       THEN events' = Append(events, [kind |-> "delete", file |-> f])
       ELSE UNCHANGED events
    /\ lastOp' = NoOp
    /\ prevIndex' = << >>
    /\ UNCHANGED <<deletedFiles, workspaceFolders, indexedFiles, config, phase, classIndex,
                   statusBar,
                   fileWatcher, scans, microtasks>>

\* ------------------------------------------------------- initialize
\* activate: new CSSIndexer(context), then initialize() up to its first await.
initialize ==
    /\ phase = "constructed"
    /\ microtasks = << >>
    /\ IF ~workspaceFolders
       THEN /\ phase' = "activated"
            /\ UNCHANGED scans
       ELSE /\ phase' = "initializing"
            /\ scans' = [scans EXCEPT ![1] = StartScan("initialize", "alone")]
    /\ lastOp' = NoOp
    /\ prevIndex' = << >>
    /\ UNCHANGED <<deletedFiles, workspaceFolders, indexedFiles, config, disk, classIndex,
                   statusBar,
                   fileWatcher, events, microtasks, edits>>

\* The host evaluates the glob of a pending findFiles call against the
\* files that exist at that moment; the order of the list is the host's.
findFilesSearch(id) ==
    /\ scans[id].state = "finding"
    /\ microtasks = << >>
    /\ \E files \in Orderings(findFiles(Head(scans[id].patterns), config.exclude)) :
          scans' = [scans EXCEPT ![id].state = "found", ![id].files = files]
    /\ lastOp' = NoOp
    /\ prevIndex' = << >>
    /\ UNCHANGED <<deletedFiles, workspaceFolders, indexedFiles, config, disk, phase, classIndex,
                   statusBar,
                   fileWatcher, events, microtasks, edits>>

\* indexWorkspace resumes with the file list:
\* Promise.all(files.map(file => this.indexFile(file.fsPath))) runs every
\* indexFile up to its await, in list order.
indexWorkspaceFound(id) ==
    /\ scans[id].state = "found"
    /\ Quiet
    /\ microtasks' = indexFileBegin(scans[id].files, id) \o << SettledTask(id) >>
    /\ scans' = [scans EXCEPT ![id].state = "indexing"]
    /\ lastOp' = Op("indexWorkspace", "", NoResult, Unreadable(scans[id].files))
    /\ prevIndex' = classIndex
    /\ UNCHANGED <<deletedFiles, workspaceFolders, indexedFiles, config, disk, phase, classIndex,
                   statusBar,
                   fileWatcher, events, edits>>

\* indexFile after its await: removeClassesFromFile, then set every class.
indexFileResume ==
    /\ microtasks # << >>
    /\ Head(microtasks).k = "indexFile"
    /\ LET t == Head(microtasks)
       IN  /\ classIndex' = indexFileStore(classIndex, t.file, t.result)
           /\ prevIndex' = classIndex
           /\ lastOp' = Op("indexFile", t.file, t.result, {})
           /\ scans' = [id \in ScanIds |->
                  IF id = t.scan
                  THEN [scans[id] EXCEPT !.reads =
                           Append(@, [file |-> t.file, result |-> t.result])]
                  ELSE IF t.scan = 0 THEN Disturbed(scans)[id]
                  ELSE Overlapped(scans)[id]]
           /\ indexedFiles' = indexedFiles \cup {t.file}
    /\ microtasks' = Tail(microtasks)
    /\ UNCHANGED <<deletedFiles, workspaceFolders, config, disk, phase, statusBar,
                   fileWatcher, events, edits>>

\* Promise.all has settled and a pattern is left: the loop of indexWorkspace
\* goes on to the next findFiles.
indexWorkspaceNext ==
    /\ microtasks # << >>
    /\ Head(microtasks).k = "settled"
    /\ LET id == Head(microtasks).scan
       IN  /\ Len(scans[id].patterns) > 1
           /\ scans' = [scans EXCEPT ![id].state = "finding",
                                     ![id].patterns = Tail(@),
                                     ![id].files = << >>]
    /\ microtasks' = Tail(microtasks)
    /\ lastOp' = NoOp
    /\ prevIndex' = << >>
    /\ UNCHANGED <<deletedFiles, workspaceFolders, indexedFiles, config, disk, phase, classIndex,
                   statusBar,
                   fileWatcher, events, edits>>

\* The last pattern is done and indexWorkspace returns to initialize:
\* setupFileWatcher, updateStatusBar; activate registers the commands.
initializeDone ==
    /\ microtasks # << >>
    /\ Head(microtasks).k = "settled"
    /\ LET id == Head(microtasks).scan
       IN  /\ Len(scans[id].patterns) = 1
           /\ scans[id].caller = "initialize"
           /\ lastOp' = [Op("initialize", "", NoResult, {}) EXCEPT
                            !.reads = scans[id].reads, !.clean = scans[id].clean]
           /\ scans' = [scans EXCEPT ![id] = IdleScan]
    /\ microtasks' = Tail(microtasks)
    /\ fileWatcher' = TRUE
    /\ statusBar' = updateStatusBar(classIndex)
    /\ phase' = "activated"
    /\ prevIndex' = classIndex
    /\ UNCHANGED <<deletedFiles, workspaceFolders, indexedFiles, config, disk, classIndex, events,
                   edits>>

\* The last pattern is done and indexWorkspace returns to rescanFiles:
\* updateStatusBar.
rescanFilesDone ==
    /\ microtasks # << >>
    /\ Head(microtasks).k = "settled"
    /\ LET id == Head(microtasks).scan
       IN  /\ Len(scans[id].patterns) = 1
           /\ scans[id].caller = "rescanFiles"
           /\ lastOp' = [Op("rescanFiles", "", NoResult, {}) EXCEPT
                            !.reads = scans[id].reads, !.clean = scans[id].clean]
           /\ scans' = [scans EXCEPT ![id] = IdleScan]
    /\ microtasks' = Tail(microtasks)
    /\ statusBar' = updateStatusBar(classIndex)
    /\ prevIndex' = classIndex
    /\ UNCHANGED <<deletedFiles, workspaceFolders, indexedFiles, config, disk, phase, classIndex,
                   fileWatcher, events, edits>>

\* ------------------------------------------------------- the file watcher
\* onDidCreate / onDidChange: indexFile(uri.fsPath) up to its await, then
\* updateStatusBar.
indexFileEvent(kind) ==
    /\ fileWatcher
    /\ Quiet
    /\ events # << >>
    /\ Head(events).kind = kind
    /\ LET f == Head(events).file
       IN  /\ microtasks' = indexFileBegin(<< f >>, 0)
           /\ lastOp' = Op(kind, f, NoResult, Unreadable(<< f >>))
    /\ events' = Tail(events)
    /\ statusBar' = updateStatusBar(classIndex)
    /\ scans' = Disturbed(scans)
    /\ prevIndex' = classIndex
    /\ deletedFiles' = deletedFiles \ {Head(events).file}
    /\ UNCHANGED <<workspaceFolders, indexedFiles, config, disk, phase, classIndex,
                   fileWatcher, edits>>

onDidCreate == indexFileEvent("create")

onDidChange == indexFileEvent("change")

\* onDidDelete: removeClassesFromFile(uri.fsPath), then updateStatusBar.
onDidDelete ==
    /\ fileWatcher
    /\ Quiet
    /\ events # << >>
    /\ Head(events).kind = "delete"
    /\ classIndex' = removeClassesFromFile(classIndex, Head(events).file)
    /\ indexedFiles' = indexedFiles \ {Head(events).file}
    /\ statusBar' = updateStatusBar(classIndex')
    /\ lastOp' = Op("removeFile", Head(events).file, NoResult, {})
    /\ prevIndex' = classIndex
    /\ events' = Tail(events)
    /\ scans' = Disturbed(scans)
    /\ deletedFiles' = deletedFiles \cup {Head(events).file}
    /\ UNCHANGED <<workspaceFolders, config, disk, phase, fileWatcher,
                   microtasks, edits>>

\* ------------------------------------------------------- the commands
\* customCSSIntelliSense.rescanFiles: rescanFiles() runs up to the await in
\* indexWorkspace (classIndex.clear(), findFiles is called), and the command
\* shows its message.
rescanFilesCommand(id) ==
    /\ phase = "activated"
    /\ Quiet
    /\ ~InFlight(id)
    /\ classIndex' = MapClear(classIndex)
    /\ indexedFiles' = {}
    /\ scans' = [Overlapped(scans) EXCEPT ![id] =
                    StartScan("rescanFiles",
                              IF \A other \in ScanIds : ~InFlight(other)
                              THEN "alone" ELSE "overlapped")]
    /\ lastOp' = [Op("rescanFilesCommand", "", NoResult, {}) EXCEPT
                     !.message = Message("CSS files rescanned successfully", 0, 0)]
    /\ prevIndex' = classIndex
    /\ deletedFiles' = {}
    /\ UNCHANGED <<workspaceFolders, config, disk, phase, statusBar,
                   fileWatcher, events, microtasks, edits>>

\* customCSSIntelliSense.clearCache: clearCache(), then the message.
clearCacheCommand ==
    /\ phase = "activated"
    /\ Quiet
    /\ classIndex' = MapClear(classIndex)
    /\ indexedFiles' = {}
    /\ statusBar' = updateStatusBar(classIndex')
    /\ scans' = Overlapped(scans)
    /\ lastOp' = [Op("clearCache", "", NoResult, {}) EXCEPT
                     !.message = Message("CSS cache cleared successfully", 0, 0)]
    /\ prevIndex' = classIndex
    /\ UNCHANGED <<deletedFiles, workspaceFolders, config, disk, phase, fileWatcher, events,
                   microtasks, edits>>

\* customCSSIntelliSense.showStatistics: the message shows getStatistics().
showStatisticsCommand ==
    /\ phase = "activated"
    /\ Quiet
    /\ lastOp' = [Op("showStatistics", "", NoResult, {}) EXCEPT
                     !.message = Message("CSS IntelliSense: classes indexed from files",
                                         getStatistics(classIndex).classCount,
                                         getStatistics(classIndex).fileCount)]
    /\ prevIndex' = classIndex
    /\ UNCHANGED <<deletedFiles, workspaceFolders, indexedFiles, config, disk, phase, classIndex,
                   statusBar,
                   fileWatcher, events, scans, microtasks, edits>>

Next ==
    \/ \E f \in Files : \E c \in Contents(f) : WriteFile(f, c)
    \/ \E f \in Files : DeleteFile(f)
    \/ initialize
    \/ \E id \in ScanIds : findFilesSearch(id)
    \/ \E id \in ScanIds : indexWorkspaceFound(id)
    \/ indexFileResume
    \/ indexWorkspaceNext
    \/ initializeDone
    \/ rescanFilesDone
    \/ onDidCreate
    \/ onDidChange
    \/ onDidDelete
    \/ \E id \in ScanIds : rescanFilesCommand(id)
    \/ clearCacheCommand
    \/ showStatisticsCommand

Spec == Init /\ [][Next]_vars

\* ======================================================= configuration errors
\* Settings with a pattern that is not a glob: an include pattern, or an
\* exclude pattern.
Malformed == {"**/*.{css", "{**/dist/**"}

ConfigErrorConfigs ==
    { [include |-> <<"**/*.{css", "**/*.scss">>, exclude |-> DefaultExclude],
      [include |-> <<"**/*.css", "**/*.scss">>,
       exclude |-> <<"**/node_modules/**", "{**/dist/**">>] }

ConfigErrorInit ==
    /\ workspaceFolders \in BOOLEAN
    /\ config \in ConfigErrorConfigs
    /\ disk \in InitialDisks
    /\ workspaceFolders = (\E f \in Files : disk[f] # NoFile)
    /\ phase = "constructed"
    /\ classIndex = << >>
    /\ statusBar = [classCount |-> 0, fileCount |-> 0]
    /\ fileWatcher = FALSE
    /\ events = << >>
    /\ scans = [id \in ScanIds |-> IdleScan]
    /\ microtasks = << >>
    /\ edits = 0
    /\ indexedFiles = {}
    /\ deletedFiles = {}
    /\ lastOp = NoOp
    /\ prevIndex = << >>

\* The host rejects a pending findFiles call whose include pattern, or
\* whose exclude glob `{${excludePatterns.join(',')}}`, it cannot parse
\* (it may also resolve the call: findFilesSearch).  indexWorkspace catches
\* the error, logs it and goes on with the loop.
findFilesRejected(id) ==
    /\ scans[id].state = "finding"
    /\ microtasks = << >>
    /\ \/ Head(scans[id].patterns) \in Malformed
       \/ \E e \in Range(config.exclude) : e \in Malformed
    /\ scans' = [scans EXCEPT ![id].state = "indexing"]
    /\ microtasks' = << SettledTask(id) >>
    /\ lastOp' = Op("findFilesError", "", NoResult, {})
    /\ prevIndex' = classIndex
    /\ UNCHANGED <<deletedFiles, workspaceFolders, indexedFiles, config, disk, phase, classIndex,
                   statusBar, fileWatcher, events, edits>>

ConfigErrorNext ==
    \/ Next
    \/ \E id \in ScanIds : findFilesRejected(id)

ConfigErrorSpec == ConfigErrorInit /\ [][ConfigErrorNext]_vars

\* ======================================================= the completion front-end
\* provideCompletionItems asks the index for the classes that match the word
\* under the cursor.  The index is any index the indexer can have built from
\* a stylesheet that defines some of these classes.
SearchNames ==
    { <<"p", "r", "i", "m", "a", "r", "y">>,
      <<"b", "t", "n", "-", "p", "r", "i", "m", "a", "r", "y">>,
      <<"x", "y", "z">>,
      <<"b", "u", "t", "t", "o", "n", "-", "p", "r", "i", "m", "a", "r", "y">>,
      <<"m", "y", "-", "p", "r", "i", "m", "a", "r", "y", "-", "b", "u", "t", "t", "o", "n">>,
      <<"B", "t", "n", "-", "P", "r">> }

\* The word under the cursor.
SearchQueries ==
    { << >>,
      <<"p", "r", "i", "m", "a", "r", "y">>,
      <<"b", "t", "n", "-", "p", "r">>,
      <<"b", "t", "n", "-", "p", "r", "i", "m", "a", "r", "y">>,
      <<"y", "x">>,
      <<"B">> }

\* customCSSIntelliSense.maxSuggestions: any number the user wrote.
SearchLimits == ((0 - MaxLimit)..MaxLimit) \cup {50}

\* The lists of at most n different elements of S.
DistinctSeqs(S, n) ==
    UNION { {seq \in [1..k -> S] : \A i, j \in 1..k : seq[i] = seq[j] => i = j}
            : k \in 0..n }

\* The stylesheet  .name1 { display: block }  .name2 { display: block } ...
SearchRoot(names) ==
    [i \in 1..Len(names) |->
        Rule(<<".">> \o names[i], << <<"display", "block">> >>, i)]

SearchIndexes ==
    { indexFileStore(<< >>, "a.css",
                     [classes |-> extractClassesFromAST(SearchRoot(names), "a.css"),
                      errors |-> << >>])
      : names \in DistinctSeqs(SearchNames, MaxIndexLen) }

\* lastOp of a search: the arguments, the score calculateMatchScore gives
\* every class of the index (for a query that is not empty), and the result.
SearchOp(index, query, maxResults) ==
    [op |-> "searchClasses", query |-> query, maxResults |-> maxResults,
     scores |-> IF query = << >> THEN << >>
                ELSE [i \in 1..Len(index) |->
                         calculateMatchScore(index[i].name, toLowerCase(query))],
     found |-> searchClasses(index, query, maxResults)]

\* Mutant: the Map is left holding the sorted results.
searchClassesLeaves_Results(index, query, maxResults) ==
    searchClasses(index, query, maxResults)

\* The Map after searchClasses: the call reads it through values() and
\* forEach; push, sort and slice work on the arrays the call built.
searchClassesLeaves(index, query, maxResults) == index

\* The Map after getClass: Map.prototype.get.
getClassLeaves(index, className) == index

\* The editor asks for completions: the request waits for the extension host.
CompletionRequest(query, maxSuggestions) ==
    [kind |-> "completion", query |-> query, maxSuggestions |-> maxSuggestions]

\* The editor asks for a hover or a definition of the word at the cursor.
HoverRequest(className) == [kind |-> "hover", className |-> className]

DefinitionRequest(className) == [kind |-> "definition", className |-> className]

\* getClassNameAtPosition: the word under the cursor.
WordsAtPosition == SearchNames \cup {<<"m", "i", "s", "s", "i", "n", "g">>}

SearchInit ==
    /\ workspaceFolders = TRUE
    /\ config = [include |-> DefaultInclude, exclude |-> DefaultExclude]
    /\ disk = [f \in Files |-> NoFile]
    /\ phase = "activated"
    /\ classIndex \in SearchIndexes
    /\ statusBar = updateStatusBar(classIndex)
    /\ fileWatcher = TRUE
    /\ \/ \E query \in SearchQueries : \E maxSuggestions \in SearchLimits :
             events = << CompletionRequest(query, maxSuggestions) >>
       \/ \E className \in WordsAtPosition :
             \/ events = << HoverRequest(className) >>
             \/ events = << DefinitionRequest(className) >>
    /\ scans = [id \in ScanIds |-> IdleScan]
    /\ microtasks = << >>
    /\ edits = 0
    /\ indexedFiles = {"a.css"}
    /\ deletedFiles = {}
    /\ lastOp = NoOp
    /\ prevIndex = << >>

\* provideCompletionItems: searchClasses(query, maxSuggestions).
provideCompletionItems ==
    /\ phase = "activated"
    /\ events # << >>
    /\ Head(events).kind = "completion"
    /\ lastOp' = SearchOp(classIndex, Head(events).query, Head(events).maxSuggestions)
    /\ events' = Tail(events)
    /\ prevIndex' = classIndex
    /\ classIndex' = searchClassesLeaves(classIndex, Head(events).query,
                                          Head(events).maxSuggestions)
    /\ UNCHANGED <<deletedFiles, workspaceFolders, indexedFiles, config, disk, phase,
                   statusBar, fileWatcher, scans, microtasks, edits>>

\* provideHover: getClass(className); the hover shows the record found.
provideHover ==
    /\ phase = "activated"
    /\ events # << >>
    /\ Head(events).kind = "hover"
    /\ lastOp' = [op |-> "provideHover", className |-> Head(events).className,
                  found |-> getClass(classIndex, Head(events).className)]
    /\ classIndex' = getClassLeaves(classIndex, Head(events).className)
    /\ events' = Tail(events)
    /\ prevIndex' = classIndex
    /\ UNCHANGED <<deletedFiles, workspaceFolders, indexedFiles, config, disk, phase,
                   statusBar, fileWatcher, scans, microtasks, edits>>

\* provideDefinition: getClass(className); the location is the source file
\* of the record and the line Math.max(0, line - 1).
provideDefinition ==
    /\ phase = "activated"
    /\ events # << >>
    /\ Head(events).kind = "definition"
    /\ lastOp' = [op |-> "provideDefinition", className |-> Head(events).className,
                  location |-> {[file |-> c.sourceFile,
                                 line |-> IF c.line - 1 > 0 THEN c.line - 1 ELSE 0]
                                : c \in getClass(classIndex, Head(events).className)}]
    /\ classIndex' = getClassLeaves(classIndex, Head(events).className)
    /\ events' = Tail(events)
    /\ prevIndex' = classIndex
    /\ UNCHANGED <<deletedFiles, workspaceFolders, indexedFiles, config, disk, phase,
                   statusBar, fileWatcher, scans, microtasks, edits>>

SearchNext ==
    \/ provideCompletionItems
    \/ provideHover
    \/ provideDefinition
    \/ showStatisticsCommand

SearchSpec == SearchInit /\ [][SearchNext]_vars

\* ======================================================= the parser on its own
\* parseCSS on one stylesheet: a rule  <selector> { <declarations> }  with,
\* before it, nothing, a comment, another rule, or a comment and another rule.
ParserNames ==
    { <<"f", "l", "e", "x", "-", "c", "e", "n", "t", "e", "r">>,
      <<"t", "e", "x", "t", "-", "l", "g">>,
      <<"c", "u", "s", "t", "o", "m", "-", "t", "h", "i", "n", "g">>,
      <<"b", "o", "x">> }

\* .name   and   ul > li.name:hover, .9z
ParserSelectors(name) ==
    { <<".">> \o name,
      <<"u", "l", " ", ">", " ", "l", "i", ".">> \o name \o <<":", "h", "o", "v", "e", "r", ",", " ", ".", "9", "z">> }

ParserDecls ==
    { << >>,
      << <<"display", "flex">> >>,
      << <<"font-size", "1.5rem">> >>,
      << <<"font-family", "serif">> >>,
      << <<"z-index", "10">> >>,
      << <<"background-color", "red">> >>,
      << <<"border-radius", "2px">> >>,
      << <<"border-radius", "2px">>, <<"color", "red">> >> }

Filler(n) == [i \in 1..n |-> "x"]

\* The text of the comment, as postcss gives it (without /* and */).
ParserComments ==
    { <<"*", " ", "@", "d", "e", "s", "c", "r", "i", "p", "t", "i", "o", "n", " ", "C", "e", "n", "t", "e", "r", "s", " ", "c", "o", "n", "t", "e", "n", "t">>,
      <<"h", "e", "l", "p", "e", "r">>,
      <<"@", "c", "a", "t", "e", "g", "o", "r", "y", " ", "L", "a", "y", "o", "u", "t">>,
      <<"*", "\n", " ", "*", " ", "@", "d", "e", "s", "c", "r", "i", "p", "t", "i", "o", "n", " ", " ", " ", "F", "o", "o", " ", "b", "a", "r", " ", " ", "\n", " ", "*", " ", "@", "c", "a", "t", "e", "g", "o", "r", "y", " ", "L", "a", "y", "o", "u", "t">>,
      <<"@", "d", "e", "s", "c", "r", "i", "p", "t", "i", "o", "n", "s">>,
      <<"s", "e", "e", " ", "@", "d", "e", "s", "c", "r", "i", "p", "t", "i", "o", "n", "\n", "N", "e", "x", "t", " ", "l", "i", "n", "e">>,
      << >>,
      Filler(99),
      Filler(100) }

OtherRule == Rule(<<".", "o", "t", "h", "e", "r">>, << <<"color", "red">> >>, 1)

ParserRoots ==
    UNION { { << rule >>, << OtherRule, rule >> }
            \cup { << Comment(c), rule >> : c \in ParserComments }
            \cup { << Comment(c), OtherRule, rule >> : c \in ParserComments }
            : rule \in { Rule(sel, decls, 2) :
                            sel \in UNION {ParserSelectors(n) : n \in ParserNames},
                            decls \in ParserDecls } }

\* A stylesheet waits to be parsed.
ParseRequest(root) == [kind |-> "parse", root |-> root]

ParserInit ==
    /\ workspaceFolders = TRUE
    /\ config = [include |-> DefaultInclude, exclude |-> DefaultExclude]
    /\ disk = [f \in Files |-> NoFile]
    /\ phase = "constructed"
    /\ classIndex = << >>
    /\ statusBar = [classCount |-> 0, fileCount |-> 0]
    /\ fileWatcher = FALSE
    /\ \E root \in ParserRoots : events = << ParseRequest(root) >>
    /\ scans = [id \in ScanIds |-> IdleScan]
    /\ microtasks = << >>
    /\ edits = 0
    /\ indexedFiles = {}
    /\ deletedFiles = {}
    /\ lastOp = NoOp
    /\ prevIndex = << >>

\* parseCSS when processor.parse gives this root.
parseRoot ==
    /\ events # << >>
    /\ Head(events).kind = "parse"
    /\ lastOp' = [op |-> "parseCSS", root |-> Head(events).root,
                  result |-> [classes |-> extractClassesFromAST(Head(events).root, "a.css"),
                              errors |-> << >>]]
    /\ events' = Tail(events)
    /\ UNCHANGED <<deletedFiles, workspaceFolders, indexedFiles, config, disk, phase, classIndex,
                   statusBar, fileWatcher, scans, microtasks, edits, prevIndex>>

ParserNext == parseRoot

ParserSpec == ParserInit /\ [][ParserNext]_vars

\* ======================================================= properties
Records(index) == Range(index)

FromFile(index, f) == {c \in Range(index) : c.sourceFile = f}

NotFromFile(index, f) == SelectSeq(index, LAMBDA c : c.sourceFile # f)

\* The last occurrence of every name in a list of classes.
LastOccurrences(classes) ==
    {classes[k] : k \in {k \in 1..Len(classes) :
                            \A j \in (k + 1)..Len(classes) : classes[j].name # classes[k].name}}

RECURSIVE ClassesRead(_)
ClassesRead(reads) ==
    IF reads = << >> THEN << >>
    ELSE Head(reads).result.classes \o ClassesRead(Tail(reads))

\* C1: after removeFile(F) no record has sourceFile F, the records of the
\* other files are what they were, in the same order, and nothing changes
\* when F had no record.
C1_RemoveFileFrame ==
    lastOp.op = "removeFile" =>
        /\ FromFile(classIndex, lastOp.file) = {}
        /\ classIndex = NotFromFile(prevIndex, lastOp.file)
        /\ (FromFile(prevIndex, lastOp.file) = {} => classIndex = prevIndex)

C1_Witness ==
    /\ lastOp.op = "removeFile"
    /\ FromFile(prevIndex, lastOp.file) # {}
    /\ classIndex # << >>

\* C2: the index holds one record per name, and after a file is indexed
\* lookup of every name the file defines returns exactly the record of the
\* name's last rule in that file, whatever was stored for the name before.
C2_LastDefinitionWins ==
    /\ \A i, j \in 1..Len(classIndex) :
          classIndex[i].name = classIndex[j].name => i = j
    /\ lastOp.op = "indexFile" =>
          \A c \in LastOccurrences(lastOp.result.classes) :
              getClass(classIndex, c.name) = {c}

C2_Witness ==
    /\ lastOp.op = "indexFile"
    /\ \E i, j \in 1..Len(lastOp.result.classes) :
          /\ i < j
          /\ lastOp.result.classes[i].name = lastOp.result.classes[j].name
          /\ lastOp.result.classes[i].properties # lastOp.result.classes[j].properties
          /\ \E old \in Records(prevIndex) :
                /\ old.name = lastOp.result.classes[j].name
                /\ old.sourceFile # lastOp.file

C4_IdempotentWithOrder ==
    lastOp.op = "indexFile" =>
        indexFileStore(classIndex, lastOp.file, lastOp.result) = classIndex

\* C4 amended: indexing the same unchanged file again leaves the mapping
\* from names to records as it is (the iteration order may change).
C4_IdempotentMapping ==
    lastOp.op = "indexFile" =>
        Records(indexFileStore(classIndex, lastOp.file, lastOp.result))
            = Records(classIndex)

C4_Witness ==
    /\ lastOp.op = "indexFile"
    /\ indexFileStore(classIndex, lastOp.file, lastOp.result) # classIndex
    /\ FromFile(prevIndex, lastOp.file) # {}

\* C5: when the read of a file fails in indexFile, the index holds no record
\* of that file afterwards.
C5_ReadFailureLeavesNoRecords ==
    \A f \in lastOp.failed : FromFile(classIndex, f) = {}

\* C6: when the parser fails for the whole file, the result carries the
\* diagnostics and no class, the records of the file are removed, and the
\* records of the other files are what they were.
C6_ParseFailure ==
    (lastOp.op = "indexFile" /\ lastOp.result.errors # << >>) =>
        /\ lastOp.result.classes = << >>
        /\ FromFile(classIndex, lastOp.file) = {}
        /\ classIndex = NotFromFile(prevIndex, lastOp.file)

C6_Witness ==
    /\ lastOp.op = "indexFile"
    /\ lastOp.result.errors # << >>
    /\ FromFile(prevIndex, lastOp.file) # {}
    /\ classIndex # << >>

\* C7: when a rescan (or the initial scan) ends and nothing else touched the
\* index while it ran, the index holds exactly the last-write-wins merge of
\* the classes of the files it listed.
C7_RescanResult ==
    (lastOp.op \in {"rescanFiles", "initialize"} /\ lastOp.clean = "alone") =>
        Records(classIndex) = LastOccurrences(ClassesRead(lastOp.reads))

C7_Witness ==
    /\ lastOp.op = "rescanFiles"
    /\ lastOp.clean = "alone"
    /\ Len(lastOp.reads) = 2
    /\ \E c \in Records(classIndex) : c.sourceFile = lastOp.reads[2].file
    /\ \E c \in Range(lastOp.reads[1].result.classes) :
          \E d \in Range(lastOp.reads[2].result.classes) : c.name = d.name

\* C8: when rescans overlapped only with clearCache and other rescans, and
\* all of them have ended, the index is what the rescan that ended last
\* produces on its own: the merge of the classes it read.  Stated for a
\* workspace whose files do not change meanwhile.
C8_LastRescanWins ==
    (/\ edits = 0
     /\ lastOp.op = "rescanFiles"
     /\ lastOp.clean = "overlapped"
     /\ \A id \in ScanIds : ~InFlight(id)) =>
        Records(classIndex) = LastOccurrences(ClassesRead(lastOp.reads))

\* The queries a front-end can make.
QueryNames == {<<"a">>, <<"a", "b">>, <<"B", "a">>, <<"e">>}
Queries == {<< >>, <<"a">>, <<"b">>, <<"b", "a">>, <<"A", "B">>}
Limits == {-1, 0, 1, 50}

NothingFound(index) ==
    /\ getAllClasses(index) = << >>
    /\ \A n \in QueryNames : getClass(index, n) = {}
    /\ \A q \in Queries : \A k \in Limits : searchClasses(index, q, k) = << >>

\* C9: when clearCache returns every query finds nothing, and queries go on
\* finding nothing until indexFile stores records.
C9_ClearUntilIndexed ==
    [][/\ lastOp'.op = "clearCache" => NothingFound(classIndex')
       /\ (classIndex' # classIndex /\ lastOp'.op # "indexFile")
             => (NothingFound(classIndex) => NothingFound(classIndex'))]_vars

C9_Witness ==
    /\ lastOp.op = "clearCache"
    /\ prevIndex # << >>
    /\ \E id \in ScanIds : InFlight(id)

\* C10: the statistics are the number of stored records and the number of
\* files that have a stored record, also in the message the command shows,
\* and the file count is 0 when clearCache returns.
C10_Statistics ==
    LET files == {f \in Files : \E i \in 1..Len(classIndex) : classIndex[i].sourceFile = f}
    IN  /\ getStatistics(classIndex).classCount = Len(classIndex)
        /\ getStatistics(classIndex).fileCount = Cardinality(files)
        /\ lastOp.op = "showStatistics" =>
              /\ lastOp.message.classCount = Len(classIndex)
              /\ lastOp.message.fileCount = Cardinality(files)
        /\ lastOp.op = "clearCache" => getStatistics(classIndex).fileCount = 0

C10_Witness ==
    /\ lastOp.op = "showStatistics"
    /\ lastOp.message.fileCount = 2
    /\ lastOp.message.classCount = 3

\* ------------------------------------------------------- search
Searched == lastOp.op = "searchClasses"

\* C11: a search with maxResults <= 0 returns nothing, whatever the query and
\* the index, and a search with maxResults > 0 returns at most maxResults
\* records.
C11_NoResultsForLimitBelowOne ==
    Searched =>
        /\ lastOp.maxResults <= 0 => lastOp.found = << >>
        /\ lastOp.maxResults > 0 => Len(lastOp.found) <= lastOp.maxResults

RECURSIVE IsSubsequence(_, _)
IsSubsequence(query, name) ==
    IF query = << >> THEN TRUE
    ELSE IF name = << >> THEN FALSE
    ELSE \/ Head(query) = Head(name) /\ IsSubsequence(Tail(query), Tail(name))
         \/ IsSubsequence(query, Tail(name))

Matching(index, query) ==
    {i \in 1..Len(index) :
        IsSubsequence(toLowerCase(query), toLowerCase(index[i].name))}

\* C13: every record a search returns has a name that contains the query as a
\* subsequence, letter case apart.
C13_SearchSound ==
    Searched =>
        \A i \in 1..Len(lastOp.found) :
            IsSubsequence(toLowerCase(lastOp.query), toLowerCase(lastOp.found[i].name))

C13_Witness ==
    /\ Searched
    /\ lastOp.query = <<"B">>
    /\ lastOp.maxResults = 50
    /\ \E i \in 1..Len(classIndex) : classIndex[i].name = <<"x", "y", "z">>
    /\ \E k \in 1..Len(lastOp.found) : lastOp.found[k].name = <<"b", "u", "t", "t", "o", "n", "-", "p", "r", "i", "m", "a", "r", "y">>
    /\ \E k \in 1..Len(lastOp.found) : lastOp.found[k].name = <<"B", "t", "n", "-", "P", "r">>
    /\ Len(lastOp.found) = 2

RECURSIVE ScanPlaces(_, _, _)
ScanPlaces(text, pattern, after) ==
    IF pattern = << >> THEN << >>
    ELSE LET places == {p \in (after + 1)..Len(text) : text[p] = Head(pattern)}
         IN  IF places = {} THEN << >>
             ELSE LET p == CHOOSE p \in places : \A q \in places : p <= q
                  IN  << p >> \o ScanPlaces(text, Tail(pattern), p)

\* The length of the run of matches next to each other that ends just before
\* match j.
RunBefore(places, j) ==
    Cardinality({d \in 1..(j - 1) : \A e \in 1..d : places[j - e] = places[j] - e})

RECURSIVE SumTo(_, _)
SumTo(places, j) ==
    IF j = 0 THEN 0 ELSE SumTo(places, j - 1) + 1 + RunBefore(places, j)

TierScore(name, query) ==
    LET n == toLowerCase(name)
        q == toLowerCase(query)
        places == ScanPlaces(n, q, 0)
    IN  IF n = q THEN 100
        ELSE IF Len(q) <= Len(n) /\ \A i \in 1..Len(q) : n[i] = q[i] THEN 80
        ELSE IF \E k \in 0..(Len(n) - Len(q)) : \A i \in 1..Len(q) : n[k + i] = q[i]
             THEN 60
        ELSE IF Len(places) = Len(q)
             THEN (IF SumTo(places, Len(places)) * 2 < 40
                   THEN SumTo(places, Len(places)) * 2 ELSE 40)
        ELSE 0

\* C15: the score of a name for a query that is not empty is, letter case
\* apart, 100 when the name is the query, else 80 when it starts with the
\* query, else 60 when it contains the query, else min(total * 2, 40) when the
\* scan consumes the query, where every matched character adds 1 plus the
\* length of the run of matches that precedes it, else 0.
C15_ScoreTiers ==
    (Searched /\ lastOp.query # << >>) =>
        \A i \in 1..Len(classIndex) :
            lastOp.scores[i] = TierScore(classIndex[i].name, lastOp.query)

C15_Witness ==
    /\ Searched
    /\ lastOp.query = <<"b", "t", "n", "-", "p", "r", "i", "m", "a", "r", "y">>
    /\ Len(classIndex) = 3
    /\ {lastOp.scores[i] : i \in 1..3} = {100, 40, 0}

\* The place of record i among the records that score above 0: behind those
\* that score higher and those that score the same and come earlier in the
\* index.
Rank(scores, i) ==
    Cardinality({j \in 1..Len(scores) :
                    /\ scores[j] > 0
                    /\ \/ scores[j] > scores[i]
                       \/ scores[j] = scores[i] /\ j < i})

Parsed == lastOp.op = "parseCSS"

\* The last rule of the parsed root, and the classes it produced.
LastRule == lastOp.root[Len(lastOp.root)]
LastRuleClasses ==
    {c \in Range(lastOp.result.classes) : c.selector = LastRule.selector}

\* The rules of category inference, in priority order.
CategoryRules ==
    << [category |-> "Layout",
        keywords |-> {<<"f", "l", "e", "x">>, <<"g", "r", "i", "d">>},
        keys |-> {"display"}],
       [category |-> "Typography",
        keywords |-> {<<"t", "e", "x", "t">>, <<"f", "o", "n", "t">>},
        keys |-> {"font-size", "font-family", "color"}],
       [category |-> "Background",
        keywords |-> {<<"b", "g">>, <<"b", "a", "c", "k", "g", "r", "o", "u", "n", "d">>},
        keys |-> {"background-color", "background"}],
       [category |-> "Border",
        keywords |-> {<<"b", "o", "r", "d", "e", "r">>},
        keys |-> {"border", "border-radius"}],
       [category |-> "Spacing",
        keywords |-> {<<"p", "-">>, <<"m", "-">>, <<"p", "a", "d", "d", "i", "n", "g">>, <<"m", "a", "r", "g", "i", "n">>},
        keys |-> {"padding", "margin"}],
       [category |-> "Sizing",
        keywords |-> {<<"w", "-">>, <<"h", "-">>, <<"w", "i", "d", "t", "h">>, <<"h", "e", "i", "g", "h", "t">>},
        keys |-> {"width", "height"}],
       [category |-> "Visibility",
        keywords |-> {<<"h", "i", "d", "d", "e", "n">>, <<"v", "i", "s", "i", "b", "l", "e">>},
        keys |-> {"visibility", "opacity"}] >>

KeywordIn(rule, name) ==
    \E k \in rule.keywords :
        \E at \in 0..(Len(name) - Len(k)) :
            \A i \in 1..Len(k) : LowerChar(name[at + i]) = k[i]

RuleApplies(rule, name, properties) ==
    KeywordIn(rule, name) \/ rule.keys \cap DOMAIN properties # {}

FirstRule(name, properties) ==
    LET hits == {i \in 1..Len(CategoryRules) :
                    RuleApplies(CategoryRules[i], name, properties)}
    IN  IF hits = {} THEN "Utilities"
        ELSE CategoryRules[CHOOSE i \in hits : \A j \in hits : i <= j].category

\* C17: the category of a class is that of the first rule, in the order
\* Layout, Typography, Background, Border, Spacing, Sizing, Visibility, that
\* its name or its properties match, and Utilities when none does;
\* (flex-center, {display}) is Layout, (text-lg, {font-size}) is Typography,
\* (custom-thing, {z-index}) is Utilities.
C17_FirstMatchingCategory ==
    Parsed =>
        \A c \in Range(lastOp.result.classes) :
            /\ c.category = FirstRule(c.name, c.properties)
            /\ (c.name = <<"f", "l", "e", "x", "-", "c", "e", "n", "t", "e", "r">> /\ DOMAIN c.properties = {"display"})
                  => c.category = "Layout"
            /\ (c.name = <<"t", "e", "x", "t", "-", "l", "g">> /\ DOMAIN c.properties = {"font-size"})
                  => c.category = "Typography"
            /\ (c.name = <<"c", "u", "s", "t", "o", "m", "-", "t", "h", "i", "n", "g">> /\ DOMAIN c.properties = {"z-index"})
                  => c.category = "Utilities"

\* C18: a class whose name holds no keyword of any category is Typography
\* when it declares font-size or font-family, Background when it declares
\* background-color, Border when it declares border-radius, unless a rule
\* of higher priority matches.
C18_CategoryByPropertyKey ==
    Parsed =>
        \A c \in Range(lastOp.result.classes) :
            (\A i \in 1..Len(CategoryRules) : ~KeywordIn(CategoryRules[i], c.name)) =>
                LET keys == DOMAIN c.properties
                IN  /\ (keys \cap {"font-size", "font-family"} # {} /\ "display" \notin keys)
                          => c.category = "Typography"
                    /\ keys = {"background-color"} => c.category = "Background"
                    /\ keys = {"border-radius"} => c.category = "Border"

\* d is s without the whitespace at its ends.
IsTrimOf(d, s) ==
    \E a \in 0..(Len(s) - Len(d)) :
        /\ \A i \in 1..Len(d) : s[a + i] = d[i]
        /\ \A i \in 1..Len(s) : (i <= a \/ i > a + Len(d)) => s[i] \in Whitespace
        /\ d # << >> => (d[1] \notin Whitespace /\ d[Len(d)] \notin Whitespace)

\* The length of s without the whitespace at its ends.
TrimmedLength(s) ==
    LET inside == {i \in 1..Len(s) :
                      /\ \E j \in 1..i : s[j] \notin Whitespace
                      /\ \E j \in i..Len(s) : s[j] \notin Whitespace}
    IN  Cardinality(inside)

\* The marker `@description <text>` is at place p of the comment: the tag,
\* whitespace, then text.
MarkerAt(s, p) ==
    /\ p + 12 <= Len(s)
    /\ \A i \in 1..12 : s[p + i - 1] = AtDescription[i]
    /\ s[p + 12] \in Whitespace
    /\ \E t \in (p + 13)..Len(s) : s[t] \notin Whitespace

\* d is the text of the marker at p, to the end of its line, trimmed.
IsMarkerText(d, s, p) ==
    LET start == CHOOSE t \in (p + 13)..Len(s) :
                    /\ s[t] \notin Whitespace
                    /\ \A u \in (p + 13)..(t - 1) : s[u] \in Whitespace
        ends == {e \in start..Len(s) : s[e] \in LineTerminators}
        last == IF ends = {} THEN Len(s)
                ELSE (CHOOSE e \in ends : \A f \in ends : e <= f) - 1
    IN  IsTrimOf(d, SubSeq(s, start, last))

\* What the claim says the description is: {} for absent, else {text}.
IsClaimedDescription(found, commentBefore) ==
    IF commentBefore.type # "comment" THEN found = {}
    ELSE LET s == commentBefore.text
             markers == {p \in 1..Len(s) : MarkerAt(s, p)}
         IN  IF markers # {}
             THEN \E d \in found :
                     /\ found = {d}
                     /\ IsMarkerText(d, s, CHOOSE p \in markers : \A q \in markers : p <= q)
             ELSE IF (\A i \in 1..Len(s) : s[i] # "@") /\ TrimmedLength(s) < 100
             THEN \E d \in found : found = {d} /\ IsTrimOf(d, s)
             ELSE found = {}

\* C19: the description of a rule comes from the comment right before it:
\* the text of its `@description <text>` marker, trimmed, to the end of the
\* line; else the whole comment, trimmed, when it has no `@` and is shorter
\* than 100 characters; else, and when the node before the rule is not a
\* comment or there is none, no description.  (A rule gets each of its
\* classes the description; an empty description is stored as none.)
C19_Description ==
    Parsed =>
        LET at == Len(lastOp.root)
            commentBefore == IF at > 1 THEN lastOp.root[at - 1] ELSE NoNode
        IN  /\ IsClaimedDescription(extractDescription(commentBefore), commentBefore)
            /\ \A c \in LastRuleClasses :
                  \/ c.description = extractDescription(commentBefore)
                  \/ c.description = {} /\ extractDescription(commentBefore) = {<< >>}
            /\ \A c \in LastRuleClasses :
                  /\ (at > 1 /\ commentBefore = Comment(<<"*", " ", "@", "d", "e", "s", "c", "r", "i", "p", "t", "i", "o", "n", " ", "C", "e", "n", "t", "e", "r", "s", " ", "c", "o", "n", "t", "e", "n", "t">>))
                        => c.description = {<<"C", "e", "n", "t", "e", "r", "s", " ", "c", "o", "n", "t", "e", "n", "t">>}
                  /\ (at > 1 /\ commentBefore = Comment(<<"h", "e", "l", "p", "e", "r">>))
                        => c.description = {<<"h", "e", "l", "p", "e", "r">>}
                  /\ (at > 1 /\ commentBefore = Comment(<<"@", "c", "a", "t", "e", "g", "o", "r", "y", " ", "L", "a", "y", "o", "u", "t">>))
                        => c.description = {}

C19_Witness ==
    /\ Parsed
    /\ Len(lastOp.root) = 2
    /\ lastOp.root[1].type = "comment"
    /\ \E p \in 1..Len(lastOp.root[1].text) : MarkerAt(lastOp.root[1].text, p)
    /\ \E i \in 1..Len(lastOp.root[1].text) : lastOp.root[1].text[i] = "\n"
    /\ \E c \in LastRuleClasses : c.description = {<<"F", "o", "o", " ", "b", "a", "r">>}

\* ------------------------------------------------------- stored records
\* [a-zA-Z_][\w-]*
IsClassName(name) ==
    /\ name # << >>
    /\ name[1] \in UpperCase \cup LowerCase \cup {"_"}
    /\ \A i \in 2..Len(name) :
          name[i] \in UpperCase \cup LowerCase \cup Digits \cup {"_", "-"}

\* The rules of the stylesheets the files can hold, each with its file.
SheetRules ==
    UNION { { [sourceFile |-> e[1], rule |-> r] :
                r \in {n \in Range(Sheet(e[2]).root) : n.type = "rule"} }
            : e \in UNION { {<<f, content>> : content \in Contents(f)} : f \in Files } }

\* The rules a stored record can come from.
RulesOf(c) ==
    {e.rule : e \in {e \in SheetRules :
                        /\ e.sourceFile = c.sourceFile
                        /\ e.rule.selector = c.selector
                        /\ e.rule.line = c.line}}

Idle ==
    /\ phase = "activated"
    /\ events = << >>
    /\ microtasks = << >>
    /\ \A id \in ScanIds : ~InFlight(id)

\* The files a scan of the workspace indexes now.
Scanned ==
    {f \in MatchesAny(config.include) \ MatchesAny(config.exclude) : disk[f] # NoFile}

\* C21: the records of a file change in whole steps only: a step of
\* indexFile leaves exactly the classes of the parsed content for its file
\* (the old records gone, every new one set), and no other step adds a
\* record to a file, so that a reader, which runs between two steps, never
\* sees the old records removed and the new ones missing or set in part.
C21_AtomicReplacement ==
    [][\A f \in Files :
          IF lastOp'.op = "indexFile" /\ lastOp'.file = f
          THEN FromFile(classIndex', f) = LastOccurrences(lastOp'.result.classes)
          ELSE FromFile(classIndex', f) \subseteq FromFile(classIndex, f)]_vars

C21_Witness ==
    /\ lastOp.op = "indexFile"
    /\ FromFile(prevIndex, lastOp.file) # {}
    /\ FromFile(classIndex, lastOp.file) # {}
    /\ FromFile(classIndex, lastOp.file) # FromFile(prevIndex, lastOp.file)
    /\ microtasks # << >>
    /\ Head(microtasks).k = "indexFile"
    /\ \E id \in ScanIds : InFlight(id) /\ scans[id].clean # "alone"

\* C23: no stored record comes from a file that an exclude pattern matches,
\* and every stored record comes from a file that an include pattern
\* matches.
C23_ExcludedNeverIndexed ==
    \A c \in Records(classIndex) :
        /\ c.sourceFile \notin MatchesAny(config.exclude)
        /\ c.sourceFile \in MatchesAny(config.include)

\* C25: when the comment just before a rule holds  @category Layout , the
\* classes of the rule have the category Layout.
C25_CategoryTag ==
    Parsed =>
        LET at == Len(lastOp.root)
            commentBefore == IF at > 1 THEN lastOp.root[at - 1] ELSE NoNode
        IN  (commentBefore.type = "comment"
                /\ includes(commentBefore.text, <<"@", "c", "a", "t", "e", "g", "o", "r", "y", " ", "L", "a", "y", "o", "u", "t">>))
                => \A c \in LastRuleClasses : c.category = "Layout"

\* C26: after a file is removed, every class that a file still indexed
\* defines is found by lookup (the files are as they were when indexed: the
\* removed file is the only one edited).
C26_ShadowedStaysAvailable ==
    (lastOp.op = "removeFile" /\ edits = 1) =>
        \A f \in indexedFiles :
            \A c \in Range(parseCSS(disk[f], f).classes) :
                getClass(classIndex, c.name) # {}

\* C27: when nothing is pending the status bar shows the number of records
\* and the number of distinct source files of the index.
C27_StatusBarConsistent ==
    Idle => statusBar = updateStatusBar(classIndex)

\* C28: when the message "CSS files rescanned successfully" is shown,
\* lookup finds every class of the files a scan of the workspace indexes.
C28_MessageAfterRescan ==
    lastOp.message.text = "CSS files rescanned successfully" =>
        \A f \in Scanned :
            \A c \in Range(parseCSS(disk[f], f).classes) :
                getClass(classIndex, c.name) # {}

\* C29: when nothing is pending, the index holds no record of a file whose
\* delete event was handled with no create or change event of the file
\* handled and no rescan started since, whatever indexFile of that file was
\* under way when the delete event was handled.
C29_DeleteNotUndone ==
    Idle => \A f \in deletedFiles : FromFile(classIndex, f) = {}

C29_Witness ==
    /\ Idle
    /\ lastOp.op = "rescanFiles"
    /\ lastOp.clean = "disturbed"
    /\ classIndex # << >>
    /\ \E f \in deletedFiles :
          f \in MatchesAny(config.include) \ MatchesAny(config.exclude)

WellFormed(patterns) == SelectSeq(patterns, LAMBDA p : p \notin Malformed)

\* C24: when a workspace scan has run on its own over files that did not
\* change, every existing file that a well-formed include pattern matches,
\* and no well-formed exclude pattern matches, has been read and stored by
\* the scan, whichever pattern of the settings is malformed.
C24_PatternErrorIsolated ==
    (lastOp.op \in {"initialize", "rescanFiles"}
        /\ lastOp.clean = "alone" /\ edits = 0) =>
        \A p \in Range(WellFormed(config.include)) :
            \A f \in findFiles(p, WellFormed(config.exclude)) :
                \E i \in 1..Len(lastOp.reads) : lastOp.reads[i].file = f

====
